---- MODULE Spec2Model ----
(***************************************************************************)
(* Model of the ER302 card-reader service (src/src/main.rs): the frame     *)
(* codec (calculate_size, calculate_xor, send_request), the command        *)
(* catalog and the workflows read_id, read_balance, init_balance,          *)
(* increase, decrease and init_card, driven by the request handlers.       *)
(*                                                                         *)
(* Bytes are integers 0..255, buffers are sequences of bytes (index 1 of   *)
(* a sequence is offset 0 of the Rust slice).  A u32 is kept as the pair   *)
(* <<high 16 bits, low 16 bits>> so that every value of the type can be    *)
(* represented.                                                            *)
(***************************************************************************)
EXTENDS Integers, Sequences, FiniteSets, TLC

VARIABLES pc, stack, op, value, cards, ret, port, sent, faults, response, input

vars == <<pc, stack, op, value, cards, ret, port, sent, faults, response, input>>

(***************************************************************************)
(* Bounds of the model.                                                    *)
(***************************************************************************)
\* transport failures (write errors, read errors/timeouts) injected per request
MaxFaults == 1
\* longest payload enumerated byte by byte for the codec
MaxPayloadLen == 3

(***************************************************************************)
(* Protocol constants.                                                     *)
(***************************************************************************)
HEADER == <<170, 187>>
APPKEY == <<23, 5, 151, 39, 8, 89>>
DEFAULTKEY == <<255, 255, 255, 255, 255, 255>>
KEYACCESS == <<255, 7, 128, 105>>
\* vec![0; 1024], the read buffer of send_request
BUFSIZE == 1024

(***************************************************************************)
(* Byte arithmetic.                                                        *)
(***************************************************************************)
RECURSIVE BitXor(_, _, _)
\* acc ^ x on the low n bits
BitXor(a, b, n) ==
  IF n = 0 THEN 0
  ELSE (((a % 2) + (b % 2)) % 2) + 2 * BitXor(a \div 2, b \div 2, n - 1)

RECURSIVE XorRange(_, _, _)
\* the XOR of data[lo..hi] (1-based, inclusive), 0 for an empty range; the
\* range is halved rather than walked, which XOR being associative allows
XorRange(data, lo, hi) ==
  IF lo > hi THEN 0
  ELSE IF lo = hi THEN data[lo]
  ELSE LET mid == (lo + hi) \div 2
       IN  BitXor(XorRange(data, lo, mid), XorRange(data, mid + 1, hi), 8)

\* data[from..].iter().fold(acc, |acc, &x| acc ^ x), from is a 1-based index
XorFold(data, from, acc) == BitXor(acc, XorRange(data, from, Len(data)), 8)

Zeros(n) == [i \in 1..n |-> 0]

(***************************************************************************)
(* Frame codec.                                                            *)
(***************************************************************************)
calculate_size_swapped(data) ==
  LET length == Len(data) + 1
  IN  <<(length \div 256) % 256, (length % 256)>>

calculate_size(data) ==
  LET length == Len(data) + 1
  IN  <<(length % 256), (length \div 256) % 256>>

calculate_xor_from_len_lo(data) ==
  IF Len(data) < 4
  THEN [panic |-> TRUE, data |-> <<>>]
  ELSE [panic |-> FALSE, data |-> Append(data, XorFold(data, 3, 0))]

calculate_xor_min3(data) ==
  IF Len(data) < 3
  THEN [panic |-> TRUE, data |-> <<>>]
  ELSE [panic |-> FALSE, data |-> Append(data, XorFold(data, 4, 0))]

\* if data.len() < 4 { panic!(...) }; data[3..] of the Rust slice starts at
\* index 4 of the sequence
calculate_xor(data) ==
  IF Len(data) < 4
  THEN [panic |-> TRUE, data |-> <<>>]
  ELSE [panic |-> FALSE, data |-> Append(data, XorFold(data, 4, 0))]

final_data_no_header(payload) == calculate_xor(calculate_size(payload) \o payload)

\* the frame send_request hands to port.write
final_data(payload) == calculate_xor(HEADER \o calculate_size(payload) \o payload)

\* port.read(&mut buffer): Ok(n) truncates the buffer to the n bytes read,
\* Err leaves the 1024 zero bytes it was allocated with
read_buffer(r) == IF r.ok THEN r.bytes ELSE Zeros(BUFSIZE)

\* send_request: write errors and read errors are printed and dropped, the
\* result is Ok(buffer) whenever the frame could be built
send_request(payload, w, r) ==
  LET f == final_data(payload)
  IN  [panic  |-> f.panic,
       ok     |-> TRUE,
       frame  |-> f.data,
       buffer |-> read_buffer(r)]

(***************************************************************************)
(* u32 values as <<high 16 bits, low 16 bits>>.                            *)
(***************************************************************************)
to_be_bytes(v) == <<(v[1] \div 256), (v[1] % 256), (v[2] \div 256), (v[2] % 256)>>

to_le_bytes(v) == <<(v[2] % 256), (v[2] \div 256), (v[1] % 256), (v[1] \div 256)>>

from_le_bytes(b) == <<(b[4] * 256) + b[3], (b[2] * 256) + b[1]>>

\* u32::from_le_bytes([balance[9], balance[10], balance[11], balance[12]])
balance_num(balance) == from_le_bytes(SubSeq(balance, 10, 13))

DigitChars == <<"0", "1", "2", "3", "4", "5", "6", "7", "8", "9">>

HexChars == <<"0", "1", "2", "3", "4", "5", "6", "7", "8", "9",
              "A", "B", "C", "D", "E", "F">>

RECURSIVE Digits(_)
\* decimal digits of a nonzero u32, most significant first
Digits(v) ==
  IF v = <<0, 0>> THEN <<>>
  ELSE LET t == ((v[1] % 10) * 65536) + v[2]
       IN  Append(Digits(<<v[1] \div 10, t \div 10>>), DigitChars[(t % 10) + 1])

\* u32::to_string
to_string(v) == IF v = <<0, 0>> THEN <<"0">> ELSE Digits(v)

format_02x_lowercase(b) ==
  LET lower == <<"0", "1", "2", "3", "4", "5", "6", "7", "8", "9",
                 "a", "b", "c", "d", "e", "f">>
  IN  <<lower[(b \div 16) + 1], lower[(b % 16) + 1]>>

\* format!("{:02X}", byte)
format_02X(b) == <<HexChars[(b \div 16) + 1], HexChars[(b % 16) + 1]>>

uid_hex_reversed(c) ==
  format_02X(c[13]) \o format_02X(c[12]) \o format_02X(c[11]) \o format_02X(c[10])

\* cards[9..13] rendered and joined
uid_hex(c) ==
  format_02X(c[10]) \o format_02X(c[11]) \o format_02X(c[12]) \o format_02X(c[13])

(***************************************************************************)
(* Command catalog.                                                        *)
(***************************************************************************)
beep_payload(time) == <<0, 0, 6, 1>> \o <<time>>
mifare_request_payload == <<0, 0, 1, 2, 82>>
anticollision_payload == <<0, 0, 2, 2>>
select_card_payload_shifted(c) == <<0, 0, 3, 2, c[9], c[10], c[11], c[12]>>
select_card_payload(c) == <<0, 0, 3, 2, c[10], c[11], c[12], c[13]>>
authenticate_payload(key) == <<0, 0, 7, 2, 96, 53>> \o key
read_balance_payload == <<0, 0, 11, 2, 53>>
init_balance_payload(v) == <<0, 0, 10, 2, 53>> \o to_le_bytes(v)
increase_balance_payload(v) == <<0, 0, 13, 2, 53>> \o to_le_bytes(v)
decrease_balance_payload(v) == <<0, 0, 12, 2, 53>> \o to_le_bytes(v)
init_card_payload == <<0, 0, 9, 2, 55>> \o APPKEY \o KEYACCESS \o DEFAULTKEY

(***************************************************************************)
(* The transport: what port.write and port.read may do.                    *)
(***************************************************************************)
\* the anticollision response of the specification's example (17 bytes)
ExampleResponse ==
  LET b == <<0, 0, 14, 2, 17, 34, 51, 68, 85, 102, 119, 136, 170, 187, 204, 221>>
  IN  Append(b, XorFold(b, 1, 0))

\* a 14-byte device answer carrying 4 data bytes (UID or balance) at offsets 9..12
CardResponse(b) ==
  LET body == <<10, 0, 0, 0, 2, 2, 0>> \o b
  IN  HEADER \o body \o <<XorFold(body, 1, 0)>>

DataBytes == {<<211, 92, 31, 154>>, <<255, 255, 255, 255>>}

\* lengths of the short reads the transport may deliver
ShortLens == {0, 10, 13}

DeviceResponses ==
  {ExampleResponse}
    \cup {CardResponse(b) : b \in DataBytes}
    \cup {SubSeq(CardResponse(<<211, 92, 31, 154>>), 1, n) : n \in ShortLens}

\* port.read: Ok(n) with the bytes read, or Err (I/O error, timeout)
ReadOutcomes ==
  {[ok |-> TRUE, bytes |-> b] : b \in DeviceResponses}
    \cup {[ok |-> FALSE, bytes |-> <<>>]}

\* the same for the commands whose response is dropped unread (mifare-request,
\* select-card, authenticate, the value commands, init-card, beep)
DroppedReadOutcomes ==
  {[ok |-> TRUE, bytes |-> b] : b \in {CardResponse(<<211, 92, 31, 154>>), <<>>}}
    \cup {[ok |-> FALSE, bytes |-> <<>>]}

\* port.write: Ok or Err
WriteOutcomes == BOOLEAN

\* the u32 arguments of /balance/<value>, /increase/<value>, /decrease/<value>
Values == {<<0, 100>>, <<65535, 65535>>}

Workflows ==
  {"read_id", "read_balance", "init_balance", "increase", "decrease", "init_card"}

(***************************************************************************)
(* Results of the workflows (Result<String, String>) and of the handlers.  *)
(***************************************************************************)
Ok(val) == [ok |-> TRUE, msg |-> "", val |-> val]
OkMsg(msg) == [ok |-> TRUE, msg |-> msg, val |-> <<>>]
Err(msg) == [ok |-> FALSE, msg |-> msg, val |-> <<>>]

CardNotFound == "Card not found"
AuthenticationFailed == "Authentication failed"
PartialWrite == "Balance has wrote to card but can't retrive balance"
ErrorInConnection == "Error in Connection"

NoResponse == [kind |-> "none", status |-> FALSE, msg |-> "", val |-> <<>>]
Aborted == [kind |-> "abort", status |-> FALSE, msg |-> "", val |-> <<>>]
\* Json(ApiResponse { status, data })
ApiResponse(res) ==
  [kind |-> "json", status |-> res.ok, msg |-> res.msg, val |-> res.val]

(***************************************************************************)
(* Initial state: the service is up, no request is being handled.          *)
(***************************************************************************)
Init ==
  /\ pc = "idle"
  /\ stack = <<>>
  /\ op = "none"
  /\ value = <<0, 0>>
  /\ cards = <<<<>>, <<>>>>
  /\ ret = <<>>
  /\ port = "closed"
  /\ sent = <<>>
  /\ faults = 0
  /\ response = NoResponse
  /\ input = <<>>

(***************************************************************************)
(* Pieces shared by the steps of the workflows.                            *)
(***************************************************************************)
\* the function whose body is executing, and how deep it is nested
fn == stack[Len(stack)]
depth == Len(stack)

Cost(w, r) == (IF w THEN 0 ELSE 1) + (IF r.ok THEN 0 ELSE 1)

\* one call of port.write followed by one call of port.read
Log(cmd, payload, res, w, r) ==
  /\ sent' = Append(sent, [cmd   |-> cmd,
                           depth |-> depth,
                           input |-> payload,
                           frame |-> res.frame,
                           wok   |-> w,
                           rok   |-> r.ok])
  /\ faults' = faults + Cost(w, r)

Goto(p) ==
  /\ pc' = p
  /\ UNCHANGED <<stack, port, response>>

Finish_port_kept(res) ==
  /\ pc' = "done"
  /\ stack' = <<>>
  /\ port' = port
  /\ response' = ApiResponse(res)

\* the handler's match on the workflow's result; the port is dropped with rfid
Finish(res) ==
  /\ pc' = "done"
  /\ stack' = <<>>
  /\ port' = "closed"
  /\ response' = ApiResponse(res)

\* a panic unwinds the handler: no ApiResponse is built, the port is dropped
Abort ==
  /\ pc' = "done"
  /\ stack' = <<>>
  /\ port' = "closed"
  /\ response' = Aborted

confirm_failure_passed_on(res) == res

\* Err(_) arm of `match self.read_balance()` in init_balance/increase/decrease
confirm_failure(res) == Err(PartialWrite)

\* `return` of the running function: to the handler, or to the
\* `match self.read_balance()` of init_balance/increase/decrease, where ret
\* holds the value of self.read_balance() once it has returned
Return(res) ==
  IF depth = 2
  THEN /\ ret' = <<res>>
       /\ IF res.ok
          THEN /\ pc' = "beep"
               /\ stack' = <<stack[1]>>
               /\ UNCHANGED <<port, response>>
          ELSE Finish(confirm_failure(res))
  ELSE /\ Finish(res)
       /\ UNCHANGED ret

card_found_13(c) == Len(c) >= 13

\* cards.len() > 13
card_found(c) == Len(c) > 13

key_of_application(f) == APPKEY

\* the key each workflow authenticates with
key_of(f) == IF f = "init_card" THEN DEFAULTKEY ELSE APPKEY

after_anticollision_unselected(f) == IF f = "read_id" THEN "beep" ELSE "authenticate"

\* the step that follows an anticollision response of more than 13 bytes
after_anticollision(f) == IF f = "read_id" THEN "beep" ELSE "select_card"

after_authenticate_detour(f) ==
  CASE f = "read_balance" -> "init_card_request"
    [] f = "init_balance" -> "init_balance_request"
    [] f = "increase" -> "increase_balance_request"
    [] f = "decrease" -> "decrease_balance_request"
    [] f = "init_card" -> "init_card_request"

\* the step that follows a successful authenticate
after_authenticate(f) ==
  CASE f = "read_balance" -> "beep"
    [] f = "init_balance" -> "init_balance_request"
    [] f = "increase" -> "increase_balance_request"
    [] f = "decrease" -> "decrease_balance_request"
    [] f = "init_card" -> "init_card_request"

(***************************************************************************)
(* The request handlers: id, read_balance, set_balance, increase,          *)
(* decrease, initcard.  Each opens the serial port and runs its workflow.  *)
(***************************************************************************)
Request(h, v, opened) ==
  /\ pc \in {"idle", "done"}
  /\ op' = h
  /\ value' = IF h \in {"init_balance", "increase", "decrease"} THEN v ELSE <<0, 0>>
  /\ cards' = <<<<>>, <<>>>>
  /\ ret' = <<>>
  /\ sent' = <<>>
  /\ faults' = 0
  /\ UNCHANGED input
  /\ IF opened
     THEN /\ port' = "open"
          /\ stack' = <<h>>
          /\ pc' = "mifare_request"
          /\ response' = NoResponse
     ELSE /\ port' = "closed"
          /\ stack' = <<>>
          /\ pc' = "done"
          /\ response' = ApiResponse(Err(ErrorInConnection))

(***************************************************************************)
(* The steps of the workflows, one per command round trip.                 *)
(***************************************************************************)
MifareRequest(w, r) ==
  /\ pc = "mifare_request"
  /\ faults + Cost(w, r) <= MaxFaults
  /\ LET res == send_request(mifare_request_payload, w, r)
     IN  IF res.panic
         THEN Abort /\ UNCHANGED <<sent, faults, ret>>
         ELSE /\ Log("mifare_request", mifare_request_payload, res, w, r)
              /\ IF res.ok
                 THEN Goto("anticollision") /\ UNCHANGED ret
                 ELSE Return(Err("Baghali"))
  /\ UNCHANGED <<op, value, cards, input>>

Anticollision(w, r) ==
  /\ pc = "anticollision"
  /\ faults + Cost(w, r) <= MaxFaults
  /\ LET res == send_request(anticollision_payload, w, r)
     IN  IF res.panic
         THEN Abort /\ UNCHANGED <<sent, faults, cards, ret>>
         ELSE /\ Log("anticollision", anticollision_payload, res, w, r)
              /\ IF res.ok
                 THEN /\ cards' = [cards EXCEPT ![depth] = res.buffer]
                      /\ IF card_found(res.buffer)
                         THEN /\ Goto(after_anticollision(fn))
                              /\ UNCHANGED ret
                         ELSE Return(Err(CardNotFound))
                 ELSE /\ Return(Err("nothing"))
                      /\ UNCHANGED cards
  /\ UNCHANGED <<op, value, input>>

SelectCard(w, r) ==
  /\ pc = "select_card"
  /\ faults + Cost(w, r) <= MaxFaults
  /\ LET payload == select_card_payload(cards[depth])
         res == send_request(payload, w, r)
     IN  IF res.panic
         THEN Abort /\ UNCHANGED <<sent, faults, ret>>
         ELSE /\ Log("select_card", payload, res, w, r)
              /\ IF res.ok
                 THEN Goto("authenticate") /\ UNCHANGED ret
                 ELSE Return(Err("e.to_string()"))
  /\ UNCHANGED <<op, value, cards, input>>

Authenticate(w, r) ==
  /\ pc = "authenticate"
  /\ faults + Cost(w, r) <= MaxFaults
  /\ LET payload == authenticate_payload(key_of(fn))
         res == send_request(payload, w, r)
     IN  IF res.panic
         THEN Abort /\ UNCHANGED <<sent, faults, ret>>
         ELSE /\ Log("authenticate", payload, res, w, r)
              /\ IF res.ok
                 THEN Goto(after_authenticate(fn)) /\ UNCHANGED ret
                 ELSE Return(Err(AuthenticationFailed))
  /\ UNCHANGED <<op, value, cards, input>>

\* self.beep(2): the result of send_request is dropped
Beep(w, r) ==
  /\ pc = "beep"
  /\ faults + Cost(w, r) <= MaxFaults
  /\ LET payload == beep_payload(2)
         res == send_request(payload, w, r)
     IN  IF res.panic
         THEN Abort /\ UNCHANGED <<sent, faults, ret>>
         ELSE /\ Log("beep", payload, res, w, r)
              /\ CASE fn = "read_id" -> Return(Ok(uid_hex(cards[depth])))
                   [] fn = "read_balance" ->
                        Goto("read_balance_request") /\ UNCHANGED ret
                   [] fn \in {"init_balance", "increase", "decrease"} -> Return(ret[1])
                   [] fn = "init_card" -> Return(OkMsg("Card configured successfully"))
  /\ UNCHANGED <<op, value, cards, input>>

\* indexing balance[9..12] panics when the response has fewer than 13 bytes
ReadBalanceRequest(w, r) ==
  /\ pc = "read_balance_request"
  /\ faults + Cost(w, r) <= MaxFaults
  /\ LET res == send_request(read_balance_payload, w, r)
         balance == res.buffer
     IN  IF res.panic
         THEN Abort /\ UNCHANGED <<sent, faults, ret>>
         ELSE /\ Log("read_balance", read_balance_payload, res, w, r)
              /\ IF ~res.ok
                 THEN Return(Err("e.to_string()"))
                 ELSE IF Len(balance) < 13
                      THEN Abort /\ UNCHANGED ret
                      ELSE Return(Ok(to_string(balance_num(balance))))
  /\ UNCHANGED <<op, value, cards, input>>

\* init_balance_request / increase_balance_request / decrease_balance_request,
\* followed by the call of self.read_balance()
ValueRequest(name, payload, w, r) ==
  /\ pc = name
  /\ faults + Cost(w, r) <= MaxFaults
  /\ LET res == send_request(payload, w, r)
     IN  IF res.panic
         THEN Abort /\ UNCHANGED <<sent, faults, ret>>
         ELSE /\ Log(name, payload, res, w, r)
              /\ IF res.ok
                 THEN /\ pc' = "mifare_request"
                      /\ stack' = Append(stack, "read_balance")
                      /\ UNCHANGED <<ret, port, response>>
                 ELSE Return(Err("e.to_string()"))
  /\ UNCHANGED <<op, value, cards, input>>

InitBalanceRequest(w, r) ==
  ValueRequest("init_balance_request", init_balance_payload(value), w, r)

IncreaseBalanceRequest(w, r) ==
  ValueRequest("increase_balance_request", increase_balance_payload(value), w, r)

DecreaseBalanceRequest(w, r) ==
  ValueRequest("decrease_balance_request", decrease_balance_payload(value), w, r)

InitCardRequest(w, r) ==
  /\ pc = "init_card_request"
  /\ faults + Cost(w, r) <= MaxFaults
  /\ LET res == send_request(init_card_payload, w, r)
     IN  IF res.panic
         THEN Abort /\ UNCHANGED <<sent, faults, ret>>
         ELSE /\ Log("init_card_request", init_card_payload, res, w, r)
              /\ IF res.ok
                 THEN Goto("beep") /\ UNCHANGED ret
                 ELSE Return(Err("error: e.to_string() \n info : card was configured or there is a problem to config that"))
  /\ UNCHANGED <<op, value, cards, input>>

Next ==
  \/ \E h \in Workflows, v \in Values, opened \in BOOLEAN : Request(h, v, opened)
  \/ \E w \in WriteOutcomes, r \in DroppedReadOutcomes : MifareRequest(w, r)
  \/ \E w \in WriteOutcomes, r \in ReadOutcomes : Anticollision(w, r)
  \/ \E w \in WriteOutcomes, r \in DroppedReadOutcomes : SelectCard(w, r)
  \/ \E w \in WriteOutcomes, r \in DroppedReadOutcomes : Authenticate(w, r)
  \/ \E w \in WriteOutcomes, r \in DroppedReadOutcomes : Beep(w, r)
  \/ \E w \in WriteOutcomes, r \in ReadOutcomes : ReadBalanceRequest(w, r)
  \/ \E w \in WriteOutcomes, r \in DroppedReadOutcomes : InitBalanceRequest(w, r)
  \/ \E w \in WriteOutcomes, r \in DroppedReadOutcomes : IncreaseBalanceRequest(w, r)
  \/ \E w \in WriteOutcomes, r \in DroppedReadOutcomes : DecreaseBalanceRequest(w, r)
  \/ \E w \in WriteOutcomes, r \in DroppedReadOutcomes : InitCardRequest(w, r)

Spec == Init /\ [][Next]_vars

(***************************************************************************)
(* The frame codec on its own: send_request applied to arbitrary payloads. *)
(***************************************************************************)
ByteAlphabet == {0, 1, 82, 255}

\* payload lengths around the point where the LENGTH field needs its high byte
LongLens == {254, 255, 256, 600}

Payloads ==
  UNION {[1..k -> ByteAlphabet] : k \in 0..MaxPayloadLen}
    \cup {mifare_request_payload, anticollision_payload, init_card_payload}
    \cup {[i \in 1..n |-> 165] : n \in LongLens}

InitCodec ==
  /\ pc = "send_request"
  /\ stack = <<>>
  /\ op = "none"
  /\ value = <<0, 0>>
  /\ cards = <<<<>>, <<>>>>
  /\ ret = <<>>
  /\ port = "open"
  /\ sent = <<>>
  /\ faults = 0
  /\ response = NoResponse
  /\ input \in Payloads

\* one call of send_request on the pending input; cards[1] receives the
\* buffer it returns
SendRequest(w, r) ==
  /\ pc = "send_request"
  /\ pc' = "done"
  /\ LET res == send_request(input, w, r)
     IN  IF res.panic
         THEN /\ port' = "closed"
              /\ response' = Aborted
              /\ UNCHANGED <<sent, faults, cards>>
         ELSE /\ sent' = <<[cmd   |-> "send_request",
                            depth |-> 0,
                            input |-> input,
                            frame |-> res.frame,
                            wok   |-> w,
                            rok   |-> r.ok]>>
              /\ faults' = Cost(w, r)
              /\ cards' = [cards EXCEPT ![1] = res.buffer]
              /\ UNCHANGED <<port, response>>
  /\ UNCHANGED <<stack, op, value, ret, input>>

NextCodec ==
  \E w \in WriteOutcomes, r \in DroppedReadOutcomes : SendRequest(w, r)

SpecCodec == InitCodec /\ [][NextCodec]_vars

(***************************************************************************)
(* The checksum routine on its own: calculate_xor applied to the pending   *)
(* input as it stands, with no header and no length put in front of it.    *)
(***************************************************************************)
InitChecksum ==
  /\ pc = "calculate_xor"
  /\ stack = <<>>
  /\ op = "none"
  /\ value = <<0, 0>>
  /\ cards = <<<<>>, <<>>>>
  /\ ret = <<>>
  /\ port = "closed"
  /\ sent = <<>>
  /\ faults = 0
  /\ response = NoResponse
  /\ input \in Payloads

\* one call of calculate_xor; the panic unwinds the caller, a return leaves
\* the extended buffer in ret
CalculateXor ==
  /\ pc = "calculate_xor"
  /\ pc' = "done"
  /\ LET res == calculate_xor(input)
     IN  IF res.panic
         THEN /\ response' = Aborted
              /\ UNCHANGED ret
         ELSE /\ ret' = res.data
              /\ UNCHANGED response
  /\ UNCHANGED <<stack, op, value, cards, port, sent, faults, input>>

NextChecksum == CalculateXor

SpecChecksum == InitChecksum /\ [][NextChecksum]_vars

(***************************************************************************)
(* The balance encoding on its own: a value is written with one of the     *)
(* value commands and the device answers the read-balance command with the *)
(* bytes it was sent.                                                      *)
(***************************************************************************)
U32Samples ==
  {<<hi, lo>> : hi \in {0, 1, 255, 256, 39321, 65535},
                lo \in {0, 1, 9, 10, 100, 255, 256, 65535}}

InitRoundTrip ==
  /\ pc = "encode"
  /\ stack = <<>>
  /\ op \in {"init_balance", "increase", "decrease"}
  /\ value \in U32Samples
  /\ cards = <<<<>>, <<>>>>
  /\ ret = <<>>
  /\ port = "open"
  /\ sent = <<>>
  /\ faults = 0
  /\ response = NoResponse
  /\ input = <<>>

\* the payload init_balance_request / increase_balance_request /
\* decrease_balance_request builds for the value
EncodeValue ==
  /\ pc = "encode"
  /\ pc' = "decode"
  /\ input' = CASE op = "init_balance" -> init_balance_payload(value)
                 [] op = "increase" -> increase_balance_payload(value)
                 [] op = "decrease" -> decrease_balance_payload(value)
  /\ UNCHANGED <<stack, op, value, cards, ret, port, sent, faults, response>>

\* read_balance_request and read_balance's to_string on a response that
\* carries, at offsets 9..12, the 4 bytes that were sent
DecodeBalance ==
  /\ pc = "decode"
  /\ pc' = "done"
  /\ LET balance == CardResponse(SubSeq(input, 6, 9))
     IN  /\ cards' = [cards EXCEPT ![1] = balance]
         /\ response' = ApiResponse(Ok(to_string(balance_num(balance))))
  /\ UNCHANGED <<stack, op, value, ret, port, sent, faults, input>>

NextRoundTrip == EncodeValue \/ DecodeBalance

SpecRoundTrip == InitRoundTrip /\ [][NextRoundTrip]_vars

(***************************************************************************)
(* Properties of the frame codec (checked under SpecCodec).                *)
(***************************************************************************)
\* the last byte of a frame
Checksum(f) == f[Len(f)]

C2_FrameLayout ==
  \A i \in 1..Len(sent) :
    LET f == sent[i].frame
        P == sent[i].input
    IN  Len(P) <= 65534 =>
          /\ Len(f) = Len(P) + 5
          /\ SubSeq(f, 1, 2) = <<170, 187>>
          /\ f[3] + (256 * f[4]) = Len(P) + 1
          /\ f[3] \in 0..255
          /\ f[4] \in 0..255
          /\ SubSeq(f, 5, Len(f) - 1) = P

\* a payload of 255 bytes has been framed: LENGTH is 00 01
C2_Witness ==
  \E i \in 1..Len(sent) :
    /\ Len(sent[i].input) = 255
    /\ sent[i].frame[3] = 0
    /\ sent[i].frame[4] = 1

\* the buffer send_request passes to calculate_xor for the pending input
XorArgument == HEADER \o calculate_size(input) \o input

\* C21: the abort of the checksum routine is unreachable through
\* send_request: for every payload, the empty one included, the buffer passed
\* to calculate_xor is header, length and payload and so has at least 4
\* bytes; send_request never aborts and always hands a frame to the port.
C21_NoAbortInSendRequest ==
  /\ response.kind # "abort"
  /\ pc = "done" =>
        /\ Len(sent) = 1
        /\ sent[1].input = input
        /\ Len(sent[1].frame) >= 5
        /\ SubSeq(sent[1].frame, 1, Len(sent[1].frame) - 1) = XorArgument
        /\ Len(XorArgument) = Len(input) + 4

\* the empty payload has been framed: the buffer AA BB 01 00 of 4 bytes got
\* its checksum byte
C21_Witness ==
  /\ pc = "done"
  /\ input = <<>>
  /\ response.kind # "abort"
  /\ Len(sent) = 1
  /\ sent[1].frame = <<170, 187, 1, 0, 0>>

(***************************************************************************)
(* Properties of the checksum routine (checked under SpecChecksum).        *)
(***************************************************************************)
\* calculate_xor has panicked on the pending input
XorAborted == pc = "done" /\ response.kind = "abort"

\* calculate_xor has returned the pending input with one byte appended
XorAppended ==
  /\ pc = "done"
  /\ response.kind # "abort"
  /\ Len(ret) = Len(input) + 1
  /\ SubSeq(ret, 1, Len(input)) = input
  /\ ret[Len(ret)] \in 0..255

\* C22 as stated: the checksum routine aborts exactly when the buffer is
\* shorter than 3 bytes, and returns every buffer of 3 or more bytes with one
\* checksum byte appended.
C22_AbortBelow3 ==
  pc = "done" =>
    /\ XorAborted <=> Len(input) < 3
    /\ Len(input) >= 3 => XorAppended

\* C22: the checksum routine aborts exactly when the buffer is shorter than
\* 4 bytes, and returns every buffer of 4 or more bytes with one checksum
\* byte appended.
C22_AbortBelow4 ==
  pc = "done" =>
    /\ XorAborted <=> Len(input) < 4
    /\ Len(input) >= 4 => XorAppended

\* a buffer of exactly 3 bytes has made the routine abort
C22_Witness ==
  /\ XorAborted
  /\ Len(input) = 3

(***************************************************************************)
(* Properties of the workflows (checked under Spec).                       *)
(***************************************************************************)
\* the positions of sent holding a command of the given names
Sent(cmds) == {i \in 1..Len(sent) : sent[i].cmd \in cmds}

\* the round trip at position i of sent had its write or its read fail
Failed(i) == ~sent[i].wok \/ ~sent[i].rok

\* the handler has returned (or was unwound)
Ended == pc = "done" /\ op # "none"

Succeeded == Ended /\ response.kind = "json" /\ response.status

OperationCmds ==
  {"read_balance", "init_balance_request", "increase_balance_request",
   "decrease_balance_request", "init_card_request"}

ValueCmds ==
  {"init_balance_request", "increase_balance_request", "decrease_balance_request"}

\* the first anticollision round trip of the workflow has been made
FirstAnticollisionDone ==
  \E i \in Sent({"anticollision"}) : sent[i].depth = 1

\* C3: in every workflow, if the response to the first anticollision command
\* has length 13 or less, the workflow returns the failure "Card not found"
\* and sends no select-card, authenticate, operation or beep command.
C3_CardNotFoundShortCircuit ==
  (FirstAnticollisionDone /\ Len(cards[1]) <= 13) =>
    /\ Ended
    /\ response = ApiResponse(Err(CardNotFound))
    /\ Sent({"select_card", "authenticate", "beep"} \cup OperationCmds) = {}
    /\ Len(sent) = 2

\* a balance workflow has received an anticollision response of exactly 13 bytes
C3_Witness ==
  /\ op = "increase"
  /\ FirstAnticollisionDone
  /\ Len(cards[1]) = 13
  /\ response.msg = CardNotFound

\* C4: within one workflow, once the write or the read of a round trip has
\* failed, no further command frame is written to the transport.
C4_NoFrameAfterFailure ==
  \A i \in 1..Len(sent) : Failed(i) => i = Len(sent)

\* C5: a workflow in which the write or read of any round trip failed ends
\* with a failure outcome, never with a success carrying a UID or a balance.
C5_FailureAfterTransportError ==
  (Ended /\ \E i \in 1..Len(sent) : Failed(i)) => ~Succeeded

\* C6: if the write or read of the authenticate round trip fails, the
\* workflow returns "Authentication failed" (through the partial-write
\* outcome when it is the confirmation run that authenticates) and sends no
\* operation command and no beep.
C6_AuthenticationFailed ==
  \A i \in Sent({"authenticate"}) :
    Failed(i) =>
      /\ i = Len(sent)
      /\ Ended
      /\ response =
           ApiResponse(Err(IF sent[i].depth = 1 THEN AuthenticationFailed
                                                ELSE PartialWrite))

\* the confirmation run self.read_balance() has returned a failure
ConfirmationFailed == Len(ret) = 1 /\ ~ret[1].ok

\* C7: in init_balance, increase and decrease, whenever the value-mutating
\* round trip has completed and the confirmation read_balance run returns a
\* failure, the outcome is the partial-write failure, never the confirmation
\* run's own message and never a success.
C7_PartialWrite ==
  ConfirmationFailed =>
    /\ op \in {"init_balance", "increase", "decrease"}
    /\ Sent(ValueCmds) # {}
    /\ Ended
    /\ response = ApiResponse(Err(PartialWrite))
    /\ response.msg # ret[1].msg

\* decrease wrote its value and the confirmation run then found no card
C7_Witness ==
  /\ op = "decrease"
  /\ Sent({"decrease_balance_request"}) # {}
  /\ ConfirmationFailed
  /\ ret[1].msg = CardNotFound
  /\ Ended

\* C8: if init_balance completes its init-balance round trip and the read
\* of the confirmation read-balance command then times out, the outcome is
\* the partial-write failure.
C8_ConfirmTimeoutIsPartialWrite ==
  (/\ Ended
   /\ op = "init_balance"
   /\ \E i \in Sent({"init_balance_request"}) : ~Failed(i)
   /\ \E i \in Sent({"read_balance"}) : sent[i].depth = 2 /\ ~sent[i].rok)
    => response = ApiResponse(Err(PartialWrite))

\* C9: every workflow that ends with a success outcome has sent exactly one
\* beep command over its whole run, the confirmation run included.
C9_OneBeepOnSuccess ==
  Succeeded => Cardinality(Sent({"beep"})) = 1

\* C10: a workflow that ends without a success outcome (a failure or an
\* abort) has sent no beep command at any point of its run.
C10_NoBeepWithoutSuccess ==
  (Ended /\ ~Succeeded) => Sent({"beep"}) = {}

\* C11: whatever the device answers and whichever transport calls fail,
\* every workflow ends by returning a status-plus-message outcome; none
\* aborts because a response is shorter than the offsets 9-12 it reads.
C11_NoAbort ==
  Ended => response.kind = "json"

\* the commands of sent, in the order they were written
Cmds == [i \in 1..Len(sent) |-> sent[i].cmd]

IsPrefix(a, b) == Len(a) <= Len(b) /\ a = SubSeq(b, 1, Len(a))

UpperHex ==
  {"0", "1", "2", "3", "4", "5", "6", "7", "8", "9", "A", "B", "C", "D", "E", "F"}

\* the value of a hexadecimal digit
HexValue(ch) == CHOOSE k \in 0..15 : HexChars[k + 1] = ch

\* the connection was opened, so the workflow itself ran
Ran == Ended /\ response.msg # ErrorInConnection

\* C12: read_id sends exactly mifare-request, anticollision and, only when
\* the anticollision response is longer than 13 bytes, one beep of duration
\* 2, in that order, never select-card or authenticate; on success its value
\* is the 8-character uppercase hexadecimal rendering of the anticollision
\* response bytes at offsets 9, 10, 11, 12 in that order.
C12_ReadId ==
  op = "read_id" =>
    /\ IsPrefix(Cmds, <<"mifare_request", "anticollision", "beep">>)
    /\ Ran => Len(sent) >= 2
    /\ Sent({"beep"}) # {} => Len(cards[1]) > 13 /\ sent[3].input = <<0, 0, 6, 1, 2>>
    /\ (Ran /\ Len(cards[1]) > 13) => Len(sent) = 3 /\ Succeeded
    /\ Succeeded =>
         /\ Len(response.val) = 8
         /\ \A k \in 1..8 : response.val[k] \in UpperHex
         /\ \A k \in 0..3 :
              (16 * HexValue(response.val[(2 * k) + 1]))
                + HexValue(response.val[(2 * k) + 2]) = cards[1][10 + k]

\* read_id has succeeded on the card D3 5C 1F 9A after its one beep
C12_Witness ==
  /\ op = "read_id"
  /\ Succeeded
  /\ Cmds = <<"mifare_request", "anticollision", "beep">>
  /\ response.val = <<"D", "3", "5", "C", "1", "F", "9", "A">>

\* read_id has received the example anticollision response
ExampleRead ==
  /\ op = "read_id"
  /\ Ended
  /\ cards[1] = ExampleResponse

\* C13 as stated: on the 17-byte anticollision response 00 00 0E 02 11 22 33
\* 44 55 66 77 88 AA BB CC DD <xor>, read_id succeeds with "AABBCCDD".
C13_ExampleGivesAABBCCDD ==
  ExampleRead =>
    Succeeded /\ response.val = <<"A", "A", "B", "B", "C", "C", "D", "D">>

\* C13 (amended): on that response read_id succeeds with "667788AA", the
\* bytes 66 77 88 AA being the ones at offsets 9..12.
C13_ExampleGives667788AA ==
  ExampleRead =>
    Succeeded /\ response.val = <<"6", "6", "7", "7", "8", "8", "A", "A">>

C13_Witness ==
  ExampleRead /\ Succeeded /\ Len(sent) = 3

\* C14: every request handler acquires one transport connection before any
\* command is sent, sends every command of its workflow on that connection
\* and releases it when it returns, whatever the outcome; if opening fails
\* it returns status false with "Error in Connection" and sends no command.
C14_ScopedConnection ==
  /\ [](Ended => port = "closed")
  /\ []((Ended /\ sent = <<>>) => response = ApiResponse(Err(ErrorInConnection)))
  /\ [](response.msg = ErrorInConnection => (Ended /\ ~response.status /\ sent = <<>>))
  /\ [][Len(sent') > Len(sent) => port = "open"]_vars
  /\ [][(port # "open" /\ port' = "open") =>
          (pc \in {"idle", "done"} /\ sent' = <<>> /\ pc' = "mifare_request")]_vars
  /\ [][(port = "open" /\ port' # "open") => pc' = "done"]_vars

\* a value workflow has run all its 12 round trips and released the port
C14_Witness ==
  /\ Ended
  /\ Len(sent) = 12
  /\ port = "closed"

\* the position in sent where the pass (outer run or confirmation run) of
\* the command at position i begins
PassStart(i) ==
  IF sent[i].depth = 1 THEN 1
  ELSE CHOOSE j \in 1..i :
         sent[j].depth = 2 /\ \A k \in 1..(j - 1) : sent[k].depth = 1

\* C15: an operation command is written only after mifare-request,
\* anticollision (answered with more than 13 bytes), select-card and
\* authenticate were written, in that order, earlier in the same pass.
C15_OperationAfterPrefix ==
  \A i \in Sent(OperationCmds) :
    LET s == PassStart(i)
    IN  /\ i >= s + 4
        /\ [k \in 1..4 |-> sent[s + k - 1].cmd] =
             <<"mifare_request", "anticollision", "select_card", "authenticate">>
        /\ \A k \in s..(s + 3) : sent[k].depth = sent[i].depth
        /\ Len(cards[sent[i].depth]) > 13

\* the read-balance command of a confirmation run has been written
C15_Witness ==
  \E i \in Sent({"read_balance"}) : sent[i].depth = 2 /\ PassStart(i) = 6

\* C16: every select-card command of a set-balance, increase or decrease
\* workflow, the confirmation run's included, carries the 4 UID bytes of the
\* workflow's first anticollision response.
C16_SameCardConfirmed ==
  op \in {"init_balance", "increase", "decrease"} =>
    \A i \in Sent({"select_card"}) :
      SubSeq(sent[i].input, 5, 8) = SubSeq(cards[1], 10, 13)

\* C17: init_card authenticates with the default key FF FF FF FF FF FF, the
\* other workflows (confirmation runs included) with the application key
\* 17 05 97 27 08 59; init-card is never sent in a workflow that
\* authenticated with the application key.
C17_Keys ==
  /\ \A i \in Sent({"authenticate"}) :
       sent[i].input =
         <<0, 0, 7, 2, 96, 53>>
           \o (IF op = "init_card" THEN <<255, 255, 255, 255, 255, 255>>
                                   ELSE <<23, 5, 151, 39, 8, 89>>)
  /\ Sent({"init_card_request"}) # {} =>
       \A i \in Sent({"authenticate"}) :
         SubSeq(sent[i].input, 7, 12) # <<23, 5, 151, 39, 8, 89>>

\* init_card has authenticated and sent its init-card command
C17_Witness ==
  /\ op = "init_card"
  /\ Sent({"authenticate"}) # {}
  /\ Sent({"init_card_request"}) # {}

\* C18: every select-card payload is 00 00 03 02 followed by the bytes at
\* offsets 9, 10, 11, 12 of the anticollision response received immediately
\* before it in the same pass.
C18_SelectCarriesUid ==
  \A i \in Sent({"select_card"}) :
    LET c == cards[sent[i].depth]
    IN  /\ i > 1
        /\ sent[i - 1].cmd = "anticollision"
        /\ sent[i - 1].depth = sent[i].depth
        /\ sent[i].input = <<0, 0, 3, 2, c[10], c[11], c[12], c[13]>>

\* the confirmation run has selected a card other than the one first detected
C18_Witness ==
  \E i \in Sent({"select_card"}) :
    /\ sent[i].depth = 2
    /\ SubSeq(sent[i].input, 5, 8) = <<255, 255, 255, 255>>
    /\ SubSeq(cards[1], 10, 13) = <<211, 92, 31, 154>>

(***************************************************************************)
(* Properties of the balance encoding (checked under SpecRoundTrip).       *)
(***************************************************************************)
\* the value of a decimal digit
DigitValue(ch) == CHOOSE k \in 0..9 : DigitChars[k + 1] = ch

RECURSIVE ParseDecimal(_)
\* the u32 <<high 16 bits, low 16 bits>> a string of decimal digits denotes
ParseDecimal(str) ==
  IF str = <<>> THEN <<0, 0>>
  ELSE LET v == ParseDecimal(SubSeq(str, 1, Len(str) - 1))
           t == (v[2] * 10) + DigitValue(str[Len(str)])
       IN  <<(v[1] * 10) + (t \div 65536), (t % 65536)>>

\* C19: the value commands append the 4-byte little-endian encoding of
\* their u32 argument, and a response carrying the bytes sent for v reads
\* back as the decimal string of v.
C19_BalanceRoundTrip ==
  /\ pc \in {"decode", "done"} =>
       /\ Len(input) = 9
       /\ \A k \in 6..9 : input[k] \in 0..255
       /\ input[6] + (256 * input[7]) = value[2]
       /\ input[8] + (256 * input[9]) = value[1]
  /\ pc = "done" =>
       /\ response.status
       /\ Len(response.val) \in 1..10
       /\ \A k \in 1..Len(response.val) :
            \E d \in 1..10 : DigitChars[d] = response.val[k]
       /\ Len(response.val) > 1 => response.val[1] # "0"
       /\ ParseDecimal(response.val) = value
       /\ value = <<65535, 65535>> =>
            response.val = <<"4", "2", "9", "4", "9", "6", "7", "2", "9", "5">>

\* 39321 * 65536 + 256 = 2576941312 went out as 00 01 99 99 and read back
C19_Witness ==
  /\ pc = "done"
  /\ op = "increase"
  /\ value = <<39321, 256>>
  /\ SubSeq(input, 6, 9) = <<0, 1, 153, 153>>
  /\ response.val = <<"2", "5", "7", "6", "9", "4", "1", "3", "1", "2">>

(***************************************************************************)
(* Termination of the workflows (checked under Spec).                      *)
(***************************************************************************)
FrameBound(o) ==
  CASE o = "read_id" -> 3
    [] o \in {"read_balance", "init_card"} -> 6
    [] o \in {"init_balance", "increase", "decrease"} -> 12
    [] OTHER -> 0

Running == pc \notin {"idle", "done"}

\* the positions at which a round trip of a workflow is pending
StepPcs ==
  {"mifare_request", "anticollision", "select_card", "authenticate", "beep",
   "read_balance_request", "init_balance_request", "increase_balance_request",
   "decrease_balance_request", "init_card_request"}

\* C20: provided every transport write and read returns, every workflow
\* terminates after at most 3 (read_id), 6 (read_balance, init_card) or 12
\* (init_balance, increase, decrease) command frames, each written at most
\* once in its pass, with no retry.  Termination is stated by its variant:
\* a running workflow is always at one of its round trips, every step of a
\* running workflow writes exactly one more frame, and the number of frames
\* never exceeds the bound of the workflow, so a workflow whose writes and
\* reads return takes at most that many steps.
C20_BoundedTermination ==
  /\ [](Len(sent) <= FrameBound(op))
  /\ [](\A i, j \in 1..Len(sent) :
          (sent[i].cmd = sent[j].cmd /\ sent[i].depth = sent[j].depth) => i = j)
  /\ [](Running => (pc \in StepPcs /\ port = "open"))
  /\ [][Running => Len(sent') = Len(sent) + 1]_vars

\* a value workflow has ended after exactly 12 frames
C20_Witness ==
  /\ Ended
  /\ op = "decrease"
  /\ Len(sent) = 12

====
